---- MODULE Spec2Model ----
(***************************************************************************)
(* A model of QuaternionAverager<T> (src/src/lib.rs): the accumulator      *)
(* `matrix` (a 4x4 matrix of T) and `weight_sum` (a T), the two insertion  *)
(* methods and calc_average.                                               *)
(*                                                                         *)
(* Scalars.  T is an IEEE float (f32 or f64).  A scalar is modelled as a   *)
(* reduced fraction [n, d] with d >= 0; d = 0 encodes the IEEE specials:   *)
(* [1,0] = +inf, [-1,0] = -inf, [0,0] = NaN.  Signed zeros are not         *)
(* distinguished.                                                          *)
(*                                                                         *)
(* Inputs.  A float is a dyadic rational, and the only quaternions with    *)
(* dyadic components and norm exactly 1 are the 24 Hurwitz units (+-1 on   *)
(* one axis, or +-1/2 on all four).  Quats holds four of them; Weights     *)
(* holds a power of two, a negative weight and 0.  For these inputs every  *)
(* sum, product and quotient that add_quaternion and                       *)
(* add_quaternion_weighted compute is exactly representable in f32 and in  *)
(* f64, so the fraction arithmetic below is the float arithmetic of the    *)
(* code, rounding included.  Quaternions that are unit only up to rounding *)
(* are outside the model.                                                  *)
(*                                                                         *)
(* The eigen-solver.  nalgebra's SymmetricEigen is a library the code      *)
(* calls (lib.rs:99); it is modelled by its contract: the column selected  *)
(* by eigenvalues.imax() is an eigenvector of the largest eigenvalue.  A   *)
(* unit vector is represented by a primitive integer direction; the solver *)
(* is a deterministic function whose choice of sign (and of a vector in a  *)
(* degenerate dominant eigenspace) is its own.                             *)
(***************************************************************************)
EXTENDS Integers, Sequences, FiniteSets, Bags, TLC

\* ------------------------------------------------------------------ bounds
MaxInsertions == 3
MaxCalls == 2
DirBound == 3

\* ----------------------------------------------------------------- scalars
Abs(x) == IF x < 0 THEN -x ELSE x

Sign(x) == IF x > 0 THEN 1 ELSE IF x < 0 THEN -1 ELSE 0

RECURSIVE GCD(_, _)
GCD(a, b) == IF b = 0 THEN a ELSE GCD(b, a % b)

\* the scalar n/d, reduced, with a non-negative denominator
Norm(n, d) ==
    IF d = 0 THEN [n |-> Sign(n), d |-> 0]
    ELSE LET g == GCD(Abs(n), Abs(d))
         IN  [n |-> Sign(d) * (n \div g), d |-> Abs(d) \div g]

Rat(n, d) == Norm(n, d)

Zero == Rat(0, 1)
One == Rat(1, 1)
NaN == [n |-> 0, d |-> 0]
PosInf == [n |-> 1, d |-> 0]
NegInf == [n |-> -1, d |-> 0]

IsNaN(a) == a.d = 0 /\ a.n = 0
IsFinite(a) == a.d # 0

\* IEEE comparisons: every comparison with NaN is false
REq(a, b) == ~IsNaN(a) /\ ~IsNaN(b) /\ a = b
RLt(a, b) == ~IsNaN(a) /\ ~IsNaN(b) /\ a # b /\
             IF a.d = 0 THEN a.n < 0
             ELSE IF b.d = 0 THEN b.n > 0
             ELSE a.n * b.d < b.n * a.d
RGt(a, b) == RLt(b, a)
RGe(a, b) == RGt(a, b) \/ REq(a, b)

\* a + b
RAdd(a, b) ==
    IF IsNaN(a) \/ IsNaN(b) THEN NaN
    ELSE IF a.d = 0 /\ b.d = 0 THEN (IF a.n = b.n THEN a ELSE NaN)
    ELSE IF a.d = 0 THEN a
    ELSE IF b.d = 0 THEN b
    ELSE Norm(a.n * b.d + b.n * a.d, a.d * b.d)

\* a * b   (0 * inf = NaN, x * inf = +-inf, NaN * x = NaN)
RMul(a, b) == Norm(a.n * b.n, a.d * b.d)

\* 1 / b   (1/0 = +inf, 1/+-inf = 0, 1/NaN = NaN)
RRecip(b) ==
    IF IsNaN(b) THEN NaN
    ELSE IF b.d = 0 THEN Zero
    ELSE IF b.n = 0 THEN PosInf
    ELSE Norm(Sign(b.n) * b.d, Abs(b.n))

\* a / b   (x/0 = +-inf, 0/0 = NaN, inf/inf = NaN)
RDiv(a, b) == RMul(a, RRecip(b))

\* ---------------------------------------------------------------- matrices
Idx == 0 .. 3

\* Matrix4::zeros()
Zeros == [i \in Idx |-> [j \in Idx |-> Zero]]

\* self.matrix += q
MAdd(m, q) == [i \in Idx |-> [j \in Idx |-> RAdd(m[i][j], q[i][j])]]

\* a faulty variant: only the upper triangle is divided
MDiv_upper(m, s) ==
    [i \in Idx |-> [j \in Idx |-> IF i <= j THEN RDiv(m[i][j], s) ELSE m[i][j]]]

\* q / weight : every component divided by the scalar
MDiv(m, s) == [i \in Idx |-> [j \in Idx |-> RDiv(m[i][j], s)]]

\* Quaternion::new(w, i, j, k)
QuaternionNew(w, i, j, k) == [w |-> w, i |-> i, j |-> j, k |-> k]

\* quaternion.coords : nalgebra stores a quaternion as the vector [i, j, k, w]
Coords(q) == [x \in Idx |-> CASE x = 0 -> q.i [] x = 1 -> q.j [] x = 2 -> q.k [] x = 3 -> q.w]

\* quaternion.coords * quaternion.coords.transpose()
Outer(c) == [i \in Idx |-> [j \in Idx |-> RMul(c[i], c[j])]]

MIsFinite(m) == \A i \in Idx : \A j \in Idx : IsFinite(m[i][j])

\* ------------------------------------------------------------ eigen-solver
RECURSIVE SetLcm(_)
SetLcm(S) == IF S = {} THEN 1
             ELSE LET x == CHOOSE y \in S : TRUE
                      r == SetLcm(S \ {x})
                  IN  (x * r) \div GCD(x, r)

RECURSIVE SetGcd(_)
SetGcd(S) == IF S = {} THEN 0
             ELSE LET x == CHOOSE y \in S : TRUE
                  IN  GCD(x, SetGcd(S \ {x}))

\* a finite matrix scaled by a positive factor to coprime integer entries
\* (eigenvectors and the order of the eigenvalues are unchanged)
IntMatrix(m) ==
    LET L == SetLcm({m[i][j].d : i \in Idx, j \in Idx})
        raw == [i \in Idx |-> [j \in Idx |-> m[i][j].n * (L \div m[i][j].d)]]
        g == SetGcd({Abs(raw[i][j]) : i \in Idx, j \in Idx})
    IN  IF g = 0 THEN raw
        ELSE [i \in Idx |-> [j \in Idx |-> raw[i][j] \div g]]

Dot(u, v) == u[0] * v[0] + u[1] * v[1] + u[2] * v[2] + u[3] * v[3]

RemoveAt(s, c) == [x \in 1 .. (Len(s) - 1) |-> IF x < c THEN s[x] ELSE s[x + 1]]

RECURSIVE Det(_, _, _)
RECURSIVE DetRow(_, _, _, _)
\* determinant of the submatrix of B on rows rs and columns cs
Det(B, rs, cs) == IF Len(rs) = 0 THEN 1 ELSE DetRow(B, rs, cs, 1)
DetRow(B, rs, cs, c) ==
    IF c > Len(cs) THEN 0
    ELSE (IF c % 2 = 1 THEN 1 ELSE -1) * B[rs[1]][cs[c]]
             * Det(B, Tail(rs), RemoveAt(cs, c))
         + DetRow(B, rs, cs, c + 1)

LeadingSeqs == {<<0>>, <<0, 1>>, <<0, 1, 2>>, <<0, 1, 2, 3>>}

IdxSeqs == {<<0>>, <<1>>, <<2>>, <<3>>,
            <<0, 1>>, <<0, 2>>, <<0, 3>>, <<1, 2>>, <<1, 3>>, <<2, 3>>,
            <<0, 1, 2>>, <<0, 1, 3>>, <<0, 2, 3>>, <<1, 2, 3>>, <<0, 1, 2, 3>>}

\* l I - A
Shifted(A, l) == [i \in Idx |-> [j \in Idx |-> (IF i = j THEN l ELSE 0) - A[i][j]]]

\* l exceeds every eigenvalue of the symmetric matrix A: l I - A is positive
\* definite (Sylvester: its leading principal minors are > 0)
ExceedsSpectrum(A, l) ==
    LET B == Shifted(A, l) IN \A s \in LeadingSeqs : Det(B, s, s) > 0

\* l is at least every eigenvalue of A: l I - A is positive semidefinite
\* (all its principal minors are >= 0)
BoundsSpectrum(A, l) ==
    LET B == Shifted(A, l) IN \A s \in IdxSeqs : Det(B, s, s) >= 0

\* Gershgorin: no eigenvalue of A exceeds its largest absolute row sum
RowBound(A) ==
    LET sums == {Abs(A[i][0]) + Abs(A[i][1]) + Abs(A[i][2]) + Abs(A[i][3]) : i \in Idx}
    IN  CHOOSE r \in sums : \A t \in sums : t <= r

RECURSIVE FloorTop(_, _)
\* the largest integer l <= the largest eigenvalue of A, searched downwards
FloorTop(A, l) == IF ExceedsSpectrum(A, l) THEN FloorTop(A, l - 1) ELSE l

\* candidate unit vectors of a degenerate eigenspace: primitive integer
\* directions
DirRange == (0 - DirBound) .. DirBound

Dirs == {v \in [Idx -> DirRange] :
            GCD(GCD(Abs(v[0]), Abs(v[1])), GCD(Abs(v[2]), Abs(v[3]))) = 1}

Primitive(v) ==
    LET g == GCD(GCD(Abs(v[0]), Abs(v[1])), GCD(Abs(v[2]), Abs(v[3])))
    IN  [i \in Idx |-> v[i] \div g]

\* row r of the cofactor matrix of B: when B is singular of rank 3 every
\* non-zero such row spans the null space of B
CofactorRow(B, r) ==
    LET rows == RemoveAt(<<0, 1, 2, 3>>, r + 1)
    IN  [c \in Idx |-> (IF (r + c) % 2 = 0 THEN 1 ELSE -1)
                          * Det(B, rows, RemoveAt(<<0, 1, 2, 3>>, c + 1))]

OffGrid == [i \in Idx |-> 0]

\* B v = 0
InNullSpace(B, v) == \A i \in Idx : Dot(B[i], v) = 0

\* a unit eigenvector of the largest eigenvalue of the symmetric integer
\* matrix A, as an integer vector along it.  OffGrid stands for a vector
\* along no integer direction (the largest eigenvalue is not an integer) or,
\* in a degenerate eigenspace, along no candidate direction.
EigenColumn(A) ==
    LET top == FloorTop(A, RowBound(A) + 1)
        B == Shifted(A, top)
        cof == {r \in Idx : CofactorRow(B, r) # OffGrid}
    IN  IF ~BoundsSpectrum(A, top) THEN OffGrid
        ELSE IF cof # {} THEN Primitive(CofactorRow(B, CHOOSE r \in cof : TRUE))
        ELSE IF \E v \in Dirs : InNullSpace(B, v)
             THEN CHOOSE v \in Dirs : InNullSpace(B, v)
        ELSE OffGrid

\* a faulty variant: eigenvalues.imin() in place of imax(): the smallest eigenvalue
DominantColumn_imin(m) ==
    LET A == IntMatrix(m)
    IN  EigenColumn([i \in Idx |-> [j \in Idx |-> 0 - A[i][j]]])

\* SymmetricEigen::new(m), then eigenvectors.column(eigenvalues.imax()),
\* for a finite m
DominantColumn(m) == EigenColumn(IntMatrix(m))

\* --------------------------------------------------- values calc_average returns
\* a UnitQuaternion is represented by the direction (w, i, j, k) it is the
\* normalisation of
UnitValue(w, i, j, k) == [kind |-> "unit_quaternion", w |-> w, i |-> i, j |-> j, k |-> k]
NaNQuaternion == [kind |-> "nan", w |-> 0, i |-> 0, j |-> 0, k |-> 0]
OffGridQuaternion == [kind |-> "offgrid", w |-> 0, i |-> 0, j |-> 0, k |-> 0]
Unit == [kind |-> "()", w |-> 0, i |-> 0, j |-> 0, k |-> 0]

\* UnitQuaternion::from_quaternion(q): q / |q|, the primitive direction of q
FromQuaternion(q) ==
    LET g == GCD(GCD(Abs(q.w), Abs(q.i)), GCD(Abs(q.j), Abs(q.k)))
    IN  IF g = 0 THEN NaNQuaternion
        ELSE UnitValue(q.w \div g, q.i \div g, q.j \div g, q.k \div g)

\* ------------------------------------------------------ QuaternionAverager
\* QuaternionAverager::new()
new == [matrix |-> Zeros, weight_sum |-> Rat(0, 1)]

\* a faulty variant: weight_sum is not incremented
add_quaternion_noweight(self, quaternion) ==
    [matrix |-> MAdd(self.matrix, Outer(Coords(quaternion))),
     weight_sum |-> self.weight_sum]

\* a faulty variant: self.matrix = q in place of self.matrix += q
add_quaternion_assign(self, quaternion) ==
    [matrix |-> Outer(Coords(quaternion)),
     weight_sum |-> RAdd(self.weight_sum, Rat(1, 1))]

\* add_quaternion(&mut self, quaternion)
add_quaternion(self, quaternion) ==
    LET q == Outer(Coords(quaternion))
        w == Rat(1, 1)
    IN  [matrix |-> MAdd(self.matrix, q),
         weight_sum |-> RAdd(self.weight_sum, w)]

\* a faulty variant: q * weight in place of q / weight
add_quaternion_weighted_multiply(self, quaternion, weight) ==
    [matrix |-> MAdd(self.matrix,
                     [i \in Idx |-> [j \in Idx |->
                         RMul(Outer(Coords(quaternion))[i][j], weight)]]),
     weight_sum |-> RAdd(self.weight_sum, weight)]

\* a faulty variant: self.weight_sum -= weight
add_quaternion_weighted_subtract(self, quaternion, weight) ==
    [matrix |-> MAdd(self.matrix, MDiv(Outer(Coords(quaternion)), weight)),
     weight_sum |-> RAdd(self.weight_sum, RMul(Rat(-1, 1), weight))]

\* a faulty variant: a zero weight is skipped
add_quaternion_weighted_guarded(self, quaternion, weight) ==
    IF weight = Zero THEN self
    ELSE [matrix |-> MAdd(self.matrix, MDiv(Outer(Coords(quaternion)), weight)),
          weight_sum |-> RAdd(self.weight_sum, weight)]

\* add_quaternion_weighted(&mut self, quaternion, weight)
add_quaternion_weighted(self, quaternion, weight) ==
    LET q == Outer(Coords(quaternion))
        q2 == MDiv(q, weight)
    IN  [matrix |-> MAdd(self.matrix, q2),
         weight_sum |-> RAdd(self.weight_sum, weight)]

\* a faulty variant: the eigenvector is unpacked as (w, i, j, k) = (q[0], q[1], q[2], q[3])
calc_average_unpacked_in_order(self) ==
    LET m == MDiv(self.matrix, self.weight_sum)
    IN  IF ~MIsFinite(m) THEN NaNQuaternion
        ELSE LET q == DominantColumn(m)
             IN  IF q = OffGrid THEN OffGridQuaternion
                 ELSE FromQuaternion(QuaternionNew(q[0], q[1], q[2], q[3]))

\* calc_average(&self): the value returned.  A matrix with a NaN or infinite
\* entry gives the solver nothing to converge on: the value is NaN-populated.
calc_average(self) ==
    LET m == MDiv(self.matrix, self.weight_sum)
    IN  IF ~MIsFinite(m) THEN NaNQuaternion
        ELSE LET q == DominantColumn(m)
             IN  IF q = OffGrid THEN OffGridQuaternion
                 ELSE FromQuaternion(QuaternionNew(q[3], q[0], q[1], q[2]))

\* a faulty variant: self.matrix /= self.weight_sum: the normalised matrix is stored
calc_average_self_normalising(self) ==
    [matrix |-> MDiv(self.matrix, self.weight_sum), weight_sum |-> self.weight_sum]

\* a faulty variant: the accumulator is drained by the extraction
calc_average_self_draining(self) ==
    [matrix |-> Zeros, weight_sum |-> Rat(0, 1)]

\* calc_average takes &self: the accumulator after the call
calc_average_self(self) == self

\* ------------------------------------------------------------------ inputs
Half == Rat(1, 2)
NegHalf == Rat(-1, 2)

\* unit quaternions with dyadic components (w, i, j, k)
Quats == {QuaternionNew(One, Zero, Zero, Zero),
          QuaternionNew(Zero, One, Zero, Zero),
          QuaternionNew(Half, Half, Half, Half),
          QuaternionNew(Half, NegHalf, Half, Half)}

Weights == {Rat(-1, 1), Zero, Rat(2, 1)}

\* ------------------------------------------------------------------- state
\* matrix, weight_sum : the fields of the averager
\* ret    : the value the last call returned
\* op     : the method called last
\* ncalls : the number of calc_average calls since the last insertion
\* hist   : the bag of insertions made so far (a history variable)
VARIABLES matrix, weight_sum, ret, op, ncalls, hist

vars == <<matrix, weight_sum, ret, op, ncalls, hist>>

\* the accumulator
Self == [matrix |-> matrix, weight_sum |-> weight_sum]

\* a record of one insertion (history)
Insertion(q, weight, weighted) == [q |-> q, weight |-> weight, weighted |-> weighted]

Init ==
    /\ matrix = new.matrix
    /\ weight_sum = new.weight_sum
    /\ ret = Unit
    /\ op = "new"
    /\ ncalls = 0
    /\ hist = EmptyBag

AddQuaternion(q) ==
    /\ BagCardinality(hist) < MaxInsertions
    /\ LET s == add_quaternion(Self, q)
       IN  /\ matrix' = s.matrix
           /\ weight_sum' = s.weight_sum
    /\ ret' = Unit
    /\ op' = "add_quaternion"
    /\ ncalls' = 0
    /\ hist' = hist (+) SetToBag({Insertion(q, One, FALSE)})

AddQuaternionWeighted(q, weight) ==
    /\ BagCardinality(hist) < MaxInsertions
    /\ LET s == add_quaternion_weighted(Self, q, weight)
       IN  /\ matrix' = s.matrix
           /\ weight_sum' = s.weight_sum
    /\ ret' = Unit
    /\ op' = "add_quaternion_weighted"
    /\ ncalls' = 0
    /\ hist' = hist (+) SetToBag({Insertion(q, weight, TRUE)})

CalcAverage ==
    /\ ncalls < MaxCalls
    /\ ret' = calc_average(Self)
    /\ LET s == calc_average_self(Self)
       IN  /\ matrix' = s.matrix
           /\ weight_sum' = s.weight_sum
    /\ op' = "calc_average"
    /\ ncalls' = ncalls + 1
    /\ UNCHANGED hist

Next ==
    \/ \E q \in Quats : AddQuaternion(q)
    \/ \E q \in Quats : \E weight \in Weights : AddQuaternionWeighted(q, weight)
    \/ CalcAverage

Spec == Init /\ [][Next]_vars

TypeOK ==
    /\ ncalls \in 0 .. MaxCalls
    /\ op \in {"new", "add_quaternion", "add_quaternion_weighted", "calc_average"}
    /\ BagCardinality(hist) <= MaxInsertions

\* =================================================================== claims
HistSet == BagToSet(hist)

AllUnweighted == \A r \in HistSet : ~r.weighted

Unweighted(q) == SetToBag({Insertion(q, One, FALSE)})

Weighted(q, weight) == SetToBag({Insertion(q, weight, TRUE)})

QW == QuaternionNew(One, Zero, Zero, Zero)
QH == QuaternionNew(Half, Half, Half, Half)
QH2 == QuaternionNew(Half, NegHalf, Half, Half)

Fields == {"w", "i", "j", "k"}

\* the dot product and the sum of two quaternions
QDot(p, q) ==
    RAdd(RAdd(RMul(p.w, q.w), RMul(p.i, q.i)), RAdd(RMul(p.j, q.j), RMul(p.k, q.k)))

QAdd(p, q) == [a \in Fields |-> RAdd(p[a], q[a])]

\* r is a unit quaternion along the non-zero quaternion s or along -s
AlongUpToSign(r, s) ==
    /\ r.kind = "unit_quaternion"
    /\ \E a \in Fields : s[a] # Zero
    /\ \A a \in Fields : \A b \in Fields :
          RMul(Rat(r[a], 1), s[b]) = RMul(Rat(r[b], 1), s[a])

RECURSIVE SumOfOuter(_, _, _)
\* entry (i, j) of the sum of the outer products of the insertions in S
SumOfOuter(S, i, j) ==
    IF S = {} THEN Zero
    ELSE LET r == CHOOSE x \in S : TRUE
             c == Coords(r.q)
         IN  RAdd(RMul(Rat(CopiesIn(r, hist), 1), RMul(c[i], c[j])),
                  SumOfOuter(S \ {r}, i, j))

\* the orders in which the insertions of the history can have been made
Orderings ==
    {s \in [1 .. BagCardinality(hist) -> HistSet] :
        \A r \in HistSet : Cardinality({x \in DOMAIN s : s[x] = r}) = CopiesIn(r, hist)}

RECURSIVE InsertAll(_, _)
\* add_quaternion applied to self for each element of s in turn
InsertAll(self, s) ==
    IF Len(s) = 0 THEN self
    ELSE InsertAll(add_quaternion(self, s[1].q), [x \in 1 .. (Len(s) - 1) |-> s[x + 1]])

\* --- C1 ---------------------------------------------------------------
C1_Step ==
    op' = "add_quaternion" =>
        \E q \in Quats :
            /\ hist' = hist (+) Unweighted(q)
            /\ \A i \in Idx : \A j \in Idx :
                  matrix'[i][j] = RAdd(matrix[i][j], RMul(Coords(q)[i], Coords(q)[j]))
            /\ weight_sum' = RAdd(weight_sum, One)

C1_Sum ==
    AllUnweighted =>
        /\ weight_sum = Rat(BagCardinality(hist), 1)
        /\ \A i \in Idx : \A j \in Idx : matrix[i][j] = SumOfOuter(HistSet, i, j)

\* C1: add_quaternion(q) adds the outer product q q^T (components in storage
\* order) to the matrix and 1 to weight_sum; from new(), after n unweighted
\* insertions weight_sum = n and the matrix is the sum of the n outer products.
C1_UnweightedInsertion == [][C1_Step]_vars /\ []C1_Sum

C1_Witness ==
    /\ AllUnweighted
    /\ BagCardinality(hist) = MaxInsertions
    /\ Cardinality(HistSet) >= 2
    /\ op = "add_quaternion"

\* --- C2 ---------------------------------------------------------------
C2_Step ==
    \A q \in Quats : \A weight \in Weights \ {Zero} :
        (op' = "add_quaternion_weighted" /\ hist' = hist (+) Weighted(q, weight)) =>
            /\ \A i \in Idx : \A j \in Idx :
                  matrix'[i][j] =
                      RAdd(matrix[i][j], RDiv(RMul(Coords(q)[i], Coords(q)[j]), weight))
            /\ weight_sum' = RAdd(weight_sum, weight)

\* C2: for a non-zero weight w, add_quaternion_weighted(q, w) adds q q^T with
\* every entry divided by w to the matrix, and adds w itself to weight_sum.
C2_WeightedInsertion == [][C2_Step]_vars

C2_Witness ==
    /\ op = "add_quaternion_weighted"
    /\ \E q \in Quats : CopiesIn(Insertion(q, Rat(2, 1), TRUE), hist) > 0
    /\ BagCardinality(hist) >= 2
    /\ MIsFinite(matrix)

\* --- C3 ---------------------------------------------------------------
C3_Step ==
    op' = "calc_average" =>
        /\ matrix' = matrix
        /\ weight_sum' = weight_sum
        /\ (op = "calc_average" => ret' = ret)

\* C3: calc_average leaves matrix and weight_sum unchanged, in every state,
\* and a call that directly follows another call returns the same quaternion.
C3_CalcAverageIsPureRead == [][C3_Step]_vars

C3_Witness ==
    /\ op = "calc_average"
    /\ ncalls >= 2
    /\ BagCardinality(hist) >= 2
    /\ weight_sum # One
    /\ ret.kind = "unit_quaternion"

\* --- C4 ---------------------------------------------------------------
\* C4: after any insertions with non-zero weights the matrix is symmetric.
C4_MatrixSymmetric ==
    (\A r \in HistSet : r.weight # Zero) =>
        \A i \in Idx : \A j \in Idx : REq(matrix[i][j], matrix[j][i])

C4_Witness ==
    /\ \A r \in HistSet : r.weight # Zero
    /\ \E r \in HistSet : r.weighted /\ r.weight = Rat(2, 1)
    /\ \E r \in HistSet : r.weighted /\ r.weight = Rat(-1, 1)
    /\ \E r \in HistSet : ~r.weighted
    /\ \E i \in Idx : \E j \in Idx : i # j /\ matrix[i][j] # Zero

C6_WeightSumNonNegative == RGe(weight_sum, Zero)

\* C6 as amended: weight_sum >= 0 as long as every weight inserted is >= 0.
C6_WeightSumNonNegativeForNonNegativeWeights ==
    (\A r \in HistSet : RGe(r.weight, Zero)) => RGe(weight_sum, Zero)

C6_Witness ==
    /\ \A r \in HistSet : RGe(r.weight, Zero)
    /\ \E r \in HistSet : r.weighted /\ r.weight = Rat(2, 1)
    /\ \E r \in HistSet : r.weighted /\ r.weight = Zero
    /\ RGt(weight_sum, One)

\* --- C7 ---------------------------------------------------------------
\* C7 as stated: once weight_sum > 0 it is > 0 after every operation.
C7_PopulatedStaysPopulated ==
    [][RGt(weight_sum, Zero) => RGt(weight_sum', Zero)]_vars

C7_Step ==
    /\ (REq(weight_sum, Zero) /\ RGt(weight_sum', Zero)) =>
          op' \in {"add_quaternion", "add_quaternion_weighted"}
    /\ (RGt(weight_sum, Zero) /\ hist' = hist) => RGt(weight_sum', Zero)
    /\ \A r \in BagToSet(hist') :
          (RGt(weight_sum, Zero) /\ hist' = hist (+) SetToBag({r}) /\ RGe(r.weight, Zero))
              => RGt(weight_sum', Zero)

\* C7 as amended: only an insertion moves the accumulator from empty
\* (weight_sum = 0) to populated (weight_sum > 0), and a populated accumulator
\* stays populated under calc_average and under every insertion whose weight
\* is >= 0.
C7_PopulatedStaysPopulatedForNonNegativeWeights == [][C7_Step]_vars

C7_Witness ==
    /\ RGt(weight_sum, Zero)
    /\ op = "add_quaternion_weighted"
    /\ BagCardinality(hist) >= 2
    /\ \E r \in HistSet : r.weight = Rat(-1, 1)
    /\ \E r \in HistSet : r.weighted /\ r.weight = Rat(2, 1)

\* --- C8 ---------------------------------------------------------------
\* C8: after add_quaternion of two unit quaternions with positive dot product
\* into a fresh averager, calc_average returns the unit quaternion along
\* q1 + q2, up to sign.
C8_TwoSampleAverage ==
    \A q1 \in Quats : \A q2 \in Quats :
        (/\ hist = Unweighted(q1) (+) Unweighted(q2)
         /\ RGt(QDot(q1, q2), Zero)
         /\ op = "calc_average")
            => AlongUpToSign(ret, QAdd(q1, q2))

C8_Witness ==
    /\ hist = Unweighted(QW) (+) Unweighted(QH)
    /\ op = "calc_average"
    /\ ret \in {UnitValue(3, 1, 1, 1), UnitValue(-3, -1, -1, -1)}

\* --- C9 ---------------------------------------------------------------
\* C9: after a single add_quaternion(q) into a fresh averager, calc_average
\* returns q or -q: the eigenvector is unpacked by the inverse of the packing
\* used to form q q^T.
C9_SingleSampleIdentity ==
    \A q \in Quats :
        (hist = Unweighted(q) /\ op = "calc_average") =>
            QDot(q, q) = One /\ AlongUpToSign(ret, q)

C9_Witness ==
    /\ hist = Unweighted(QH2)
    /\ op = "calc_average"
    /\ ret \in {UnitValue(1, -1, 1, 1), UnitValue(-1, 1, -1, -1)}

\* --- C10 --------------------------------------------------------------
\* C10: add_quaternion_weighted(q, 0) returns normally and leaves a non-finite
\* entry in the matrix; after any further insertions the matrix still has a
\* non-finite entry, and every calc_average normalises a matrix with one.
C10_ZeroWeightPoisoning ==
    (\E r \in HistSet : r.weighted /\ r.weight = Zero) =>
        /\ ~MIsFinite(matrix)
        /\ op = "add_quaternion_weighted" => ret = Unit
        /\ op = "calc_average" => ~MIsFinite(MDiv(matrix, weight_sum))

C10_Witness ==
    /\ \E r \in HistSet : r.weighted /\ r.weight = Zero
    /\ CopiesIn(Insertion(QW, Zero, TRUE), hist) = 1
    /\ BagCardinality(hist) = MaxInsertions
    /\ \E r \in HistSet : ~r.weighted
    /\ \E r \in HistSet : r.weighted /\ r.weight = Rat(-1, 1)
    /\ op = "calc_average"
====
